---- MODULE Spec2Model ----
(***************************************************************************)
(* The order lifecycle of the storefront's server: the order routes of     *)
(* server/src/routes/orders.js over the Order documents of                 *)
(* server/src/models/Order.js, and the pages of the client that drive      *)
(* them: the checkout page (pages/CheckoutPage.tsx) and the admin's order  *)
(* management page (components/orders).                                    *)
(*                                                                         *)
(* A route handler runs in the pieces its awaits cut it into: one action   *)
(* takes the request through auth and the handler up to order.save() (the  *)
(* upload route stops once more, after multer has written the file), and   *)
(* Save is order.save() with the response.  Between the pieces, other      *)
(* handlers run and the clock ticks.  inflight holds the invocations that  *)
(* have begun and not answered, and the requests and responses on their    *)
(* way between a page and the server.  The exchange a step completes is    *)
(* kept in req and res until Finish.                                       *)
(***************************************************************************)
EXTENDS Integers, Sequences, FiniteSets, TLC

VARIABLES
    orders,     \* the Order collection: orders[i] is the document with _id = i
    stored,     \* the file multer wrote under public/uploads/payment_proofs
                \* for the request that has just been answered (None when it
                \* wrote none)
    now,        \* Date.now()
    req,        \* the request that has just been answered (NoRequest when none)
    res,        \* its response
    checkout,   \* the state of the checkout page (CheckoutPage's useState hooks
                \* and the cart and user of its contexts)
    adminPage,  \* the state of the admin's OrderManagement page
    inflight    \* the invocations under way: inflight[h] is None, or a request
                \* with the point it has reached and the document it holds

vars == <<orders, stored, now, req, res, checkout, adminPage, inflight>>

----------------------------------------------------------------------------
\* Bounds of the model.

MaxOrders == 2
MaxClock == 1

----------------------------------------------------------------------------
\* Optional values: an absent (undefined) value is None, a present one Some(v).

None == <<>>
Some(v) == <<v>>
IsSome(o) == o # <<>>
Val(o) == o[1]

----------------------------------------------------------------------------
\* Identities: the User documents, and the bearer tokens of requests.

\* A customer and an administrator; both may place orders.
Users == {"u1", "a1"}

UserDoc(u) ==
    [_id |-> u,
     name |-> IF u = "u1" THEN "Una" ELSE "Ada",
     email |-> IF u = "u1" THEN "una@x" ELSE "ada@x",
     role |-> IF u = "a1" THEN "admin" ELSE "user"]

\* A token is absent, does not verify, verifies for a user that does not
\* exist any more, or verifies for a user.
BadTokens == {"none", "invalid", "ghost"}
Tokens == BadTokens \cup Users

\* auth without the test that the token's user still exists: C17 fails of it
authBug(token) == IF token \in Users \cup {"ghost"} THEN Some(UserDoc(token)) ELSE None
\* auth: the user document put in req.user, or None when it answers 401.
auth(token) == IF token \in Users THEN Some(UserDoc(token)) ELSE None

\* isAdmin without the role test, and without any test: C1 and C10 fail of them
isAdminAnyone(user) == IsSome(user)
isAdminAlways(user) == TRUE
\* isAdmin: req.user && req.user.role === 'admin'
isAdmin(user) == IsSome(user) /\ Val(user).role = "admin"

----------------------------------------------------------------------------
\* Order documents and their validation (the mongoose schema).

PaymentStatuses == {"pending", "approved", "rejected"}
DeliveryStatuses == {"pending", "processing", "shipped", "delivered", "cancelled"}

RequiredAddress == {"street", "city", "zipCode", "country"}
AddressFields == RequiredAddress \cup {"state"}

\* orderItemSchema: productId and name required (a required string is not
\* empty), quantity >= 1, price >= 0
ValidItem(it) ==
    /\ IsSome(it.productId)
    /\ IsSome(it.name) /\ Val(it.name) # ""
    /\ IsSome(it.quantity) /\ Val(it.quantity) >= 1
    /\ IsSome(it.price) /\ Val(it.price) >= 0

\* orderSchema: what order.save() validates before it writes
ValidOrder(o) ==
    /\ \A i \in 1..Len(o.items) : ValidItem(o.items[i])
    /\ IsSome(o.totalAmount) /\ Val(o.totalAmount) >= 0
    /\ RequiredAddress \subseteq DOMAIN o.shippingAddress
    /\ \A f \in RequiredAddress : o.shippingAddress[f] # ""
    /\ IsSome(o.paymentMethod) /\ Val(o.paymentMethod) # ""
    /\ o.paymentStatus \in PaymentStatuses
    /\ o.deliveryStatus \in DeliveryStatuses

\* new Order(req.body) with the owner as a fallback: C7 fails of it
NewOrderBug(id, user, body, t) ==
    [_id |-> id,
     userId |-> IF IsSome(body.userId) THEN Val(body.userId) ELSE user._id,
     clientName |-> user.name,
     clientEmail |-> user.email,
     items |-> Val(body.items),
     totalAmount |-> body.totalAmount,
     shippingAddress |-> Val(body.shippingAddress),
     paymentMethod |-> body.paymentMethod,
     paymentProof |-> None,
     paymentStatus |-> IF IsSome(body.paymentStatus) THEN Val(body.paymentStatus)
                       ELSE "pending",
     deliveryStatus |-> "pending",
     orderDate |-> t,
     updatedAt |-> t]
\* new Order({...}): the four destructured body fields, the owner taken from
\* req.user, the schema's defaults for the rest (orderDate and updatedAt are
\* Date.now() at construction).  The document gets its place in the
\* collection, and with it the _id of the model, when it is saved.
NewOrder(id, user, body, t) ==
    [_id |-> id,
     userId |-> user._id,
     clientName |-> user.name,
     clientEmail |-> user.email,
     items |-> Val(body.items),
     totalAmount |-> body.totalAmount,
     shippingAddress |-> Val(body.shippingAddress),
     paymentMethod |-> body.paymentMethod,
     paymentProof |-> None,
     paymentStatus |-> "pending",
     deliveryStatus |-> "pending",
     orderDate |-> t,
     updatedAt |-> t]

\* Order.findById
findById(id) == IF id \in 1..Len(orders) THEN Some(orders[id]) ELSE None

\* { timestamps: true }: the pre-save hook sets updatedAt of a new document,
\* and of one the handler has modified since it was read, to the time the
\* hook runs at.
Stamped(read, doc, t) ==
    IF ~IsSome(read) \/ doc # Val(read) THEN [doc EXCEPT !.updatedAt = t] ELSE doc

\* a save that writes the document back as it was read: C25 fails of it
SavedBug(cur, old, new) == old
\* order.save() on a document read earlier: mongoose writes the modified
\* paths ($set) to the stored document, with no version check.  A path is
\* modified when the value set differs from the value read, updatedAt like
\* any other: a path set to the value it had is not written, and the stored
\* document keeps what another save has put there.
Saved(cur, old, new) ==
    [f \in DOMAIN cur |-> IF new[f] # old[f] THEN new[f] ELSE cur[f]]

----------------------------------------------------------------------------
\* Requests and responses.

NoBody ==
    [items |-> None, totalAmount |-> None, shippingAddress |-> None,
     paymentMethod |-> None, userId |-> None, paymentStatus |-> None]

Request(op, token, id, status, file, body) ==
    [op |-> op, token |-> token, id |-> id, status |-> status,
     file |-> file, body |-> body]

Response(status, list) == [status |-> status, orders |-> list]

\* JavaScript's !x for an optional number and an optional string
FalsyNumber(o) == ~IsSome(o) \/ Val(o) = 0
FalsyString(o) == ~IsSome(o) \/ Val(o) = ""

\* Order.find(filter).sort({ orderDate: -1 }): the sequences the query may
\* return, the matching documents by descending orderDate (the order of
\* documents with equal orderDate is the database's choice).
SortedOf(docs, ids) ==
    {s \in [1..Cardinality(ids) -> ids] :
        /\ \A i, j \in DOMAIN s : i # j => s[i] # s[j]
        /\ \A i, j \in DOMAIN s :
              i < j => docs[s[i]].orderDate >= docs[s[j]].orderDate}

findSortedOf(docs, ids) == {[i \in DOMAIN s |-> docs[s[i]]] : s \in SortedOf(docs, ids)}

Sorted(ids) == SortedOf(orders, ids)

findSorted(ids) == findSortedOf(orders, ids)

\* the query without its filter: C4 fails of it
OwnedByBug(uid) == 1..Len(orders)
\* the filter { userId: req.user._id }
OwnedBy(uid) == {i \in 1..Len(orders) : orders[i].userId = uid}

\* The ids a request may name: 0 is a string that is no ObjectId, the ids up
\* to Len(orders) are stored, Len(orders) + 1 is a well-formed id of no order.
RequestIds == 0..(Len(orders) + 1)

----------------------------------------------------------------------------
\* Invocations.  The server runs two handler invocations at a time.  An
\* invocation of a client page is on its way to the server (sent), in a
\* handler, or on its way back with the response (answered).  A request sent
\* straight to the API begins in its handler; it is over when it is answered
\* ("api"), or when its client has received the response ("client").

Handlers == {"h1", "h2"}

NoRequest == Request("none", "none", 0, None, None, NoBody)
NoResponse == Response(0, <<>>)

\* from: "api", "client", "checkout" or "admin"; pc: "sent", "find" (the
\* upload handler before Order.findById), "found" (Order.findById has read,
\* the handler has not gone on yet), "listed" (Order.find has read, the
\* handler has not gone on yet), "save" (order.save() is called, its
\* pre-save hooks have not run yet), "write" (the document is stamped and
\* validated, its write has not reached the collection yet), "saved" (the
\* write is in the collection, the handler has not gone on yet) or
\* "answered"; read: the document as Order.findById returned it; doc: the
\* document the handler holds; list: the documents Order.find returned;
\* file: the file multer wrote; answer: the response on its way to the
\* client.
Invocation(from, r, pc, read, doc, file, answer) ==
    [from |-> from, req |-> r, pc |-> pc, read |-> read, doc |-> doc,
     list |-> <<>>, file |-> file, res |-> answer]

Sent(from, r) == Invocation(from, r, "sent", None, None, None, NoResponse)

At(h, pc) == IsSome(inflight[h]) /\ Val(inflight[h]).pc = pc

\* Request r of client from reaches its route in invocation h.
Arrives(h, from, r) ==
    IF from \in {"api", "client"} THEN inflight[h] = None
    ELSE inflight[h] = Some(Sent(from, r))

\* A step that completes an exchange leaves it in req and res until Finish;
\* no other step is taken meanwhile.
Idle == req = NoRequest

\* The handler goes on, holding what it has so far, and gives way at an await.
Await(h, from, r, pc, read, doc, file) ==
    /\ inflight' = [inflight EXCEPT
          ![h] = Some(Invocation(from, r, pc, read, doc, file, NoResponse))]
    /\ UNCHANGED <<stored, req, res>>

\* The listing handler gives way at `await Order.find(...).sort(...)`, which
\* has read list.
AwaitList(h, from, r, list) ==
    /\ inflight' = [inflight EXCEPT
          ![h] = Some([Invocation(from, r, "listed", None, None, None, NoResponse)
                          EXCEPT !.list = list])]
    /\ UNCHANGED <<stored, req, res>>

\* the document an invocation has read, if it has read one
ReadBy(h) == IF IsSome(inflight[h]) THEN Val(inflight[h]).read ELSE None

\* res.status(status).json(...): the handler is done and the response is on
\* its way to the client.
Answer(h, from, r, status, list, file) ==
    /\ req' = r
    /\ res' = Response(status, list)
    /\ stored' = file
    /\ inflight' = [inflight EXCEPT
          ![h] = IF from = "api" THEN None
                 ELSE Some(Invocation(from, r, "answered", ReadBy(h), None, file,
                                      Response(status, list)))]

\* The client of a request sent straight to the API has its response.
Received(h) ==
    /\ Idle
    /\ At(h, "answered")
    /\ Val(inflight[h]).from = "client"
    /\ inflight' = [inflight EXCEPT ![h] = None]
    /\ UNCHANGED <<orders, stored, now, req, res, checkout, adminPage>>

----------------------------------------------------------------------------
\* The routes.

\* the check without items.length === 0: C5 fails of it
MissingDetailsBug(body) ==
    \/ ~IsSome(body.items)
    \/ FalsyNumber(body.totalAmount)
    \/ ~IsSome(body.shippingAddress)
    \/ FalsyString(body.paymentMethod)
\* !items || items.length === 0 || !totalAmount || !shippingAddress || !paymentMethod
MissingDetails(body) ==
    \/ ~IsSome(body.items)
    \/ Len(Val(body.items)) = 0
    \/ FalsyNumber(body.totalAmount)
    \/ ~IsSome(body.shippingAddress)
    \/ FalsyString(body.paymentMethod)

\* router.post('/', auth, ...) up to `await order.save()`: the document is
\* constructed with the clock of this step and save() is called
CreateOrder(h, from, r) ==
    /\ Idle
    /\ r.op = "createOrder"
    /\ Arrives(h, from, r)
    /\ LET user == auth(r.token)
       IN  IF ~IsSome(user)
           THEN Answer(h, from, r, 401, <<>>, None)
           ELSE IF MissingDetails(r.body)
           THEN Answer(h, from, r, 400, <<>>, None)
           ELSE Await(h, from, r, "save", None,
                      Some(NewOrder(0, Val(user), r.body, now)), None)
    /\ UNCHANGED <<orders, now, checkout, adminPage>>

\* router.get('/me', auth, ...) through `await Order.find({ userId:
\* req.user._id }).sort({ orderDate: -1 })`, which reads the orders as they
\* are stored now
GetMyOrders(h, from, r) ==
    /\ Idle
    /\ r.op = "getMyOrders"
    /\ Arrives(h, from, r)
    /\ LET user == auth(r.token)
       IN  IF ~IsSome(user)
           THEN Answer(h, from, r, 401, <<>>, None)
           ELSE \E list \in findSorted(OwnedBy(Val(user)._id)) :
                   AwaitList(h, from, r, list)
    /\ UNCHANGED <<orders, now, checkout, adminPage>>

\* router.get('/', auth, isAdmin, ...) through `await Order.find().sort({
\* orderDate: -1 })`, which reads the orders as they are stored now
GetAllOrders(h, from, r) ==
    /\ Idle
    /\ r.op = "getAllOrders"
    /\ Arrives(h, from, r)
    /\ LET user == auth(r.token)
       IN  IF ~IsSome(user)
           THEN Answer(h, from, r, 401, <<>>, None)
           ELSE IF ~isAdmin(user)
           THEN Answer(h, from, r, 403, <<>>, None)
           ELSE \E list \in findSorted(1..Len(orders)) :
                   AwaitList(h, from, r, list)
    /\ UNCHANGED <<orders, now, checkout, adminPage>>

\* A listing handler resumes after its `await Order.find(...)`: res.json(orders)
\* answers with the documents as they were read.
Listed(h) ==
    /\ Idle
    /\ At(h, "listed")
    /\ Answer(h, Val(inflight[h]).from, Val(inflight[h]).req, 200,
              Val(inflight[h]).list, None)
    /\ UNCHANGED <<orders, now, checkout, adminPage>>

\* multer's storage.filename: `${req.params.id}-${Date.now()}${extname}`
filename(id, t, file) == [id |-> id, at |-> t, ext |-> file.ext]

\* `/uploads/payment_proofs/${req.file.filename}`
ProofPath(name) == [dir |-> "/uploads/payment_proofs", file |-> name]

\* the ownership check letting admins through: C2 fails of it
IsOwnerBug(order, user) == order.userId = user._id \/ user.role = "admin"
\* order.userId.toString() === req.user._id.toString()
IsOwner(order, user) == order.userId = user._id

\* the assignments approving the payment on upload: C11 fails of it
AttachProofApproves(order, name, t) ==
    [order EXCEPT !.paymentProof = Some(ProofPath(name)),
                  !.paymentStatus = "approved",
                  !.updatedAt = t]
\* the handler's assignments to the order it found
AttachProof(order, name, t) ==
    [order EXCEPT !.paymentProof = Some(ProofPath(name)),
                  !.paymentStatus = "pending",
                  !.updatedAt = t]

\* `await Order.findById(req.params.id)` of the upload handler: it reads the
\* order as it is stored now (null for an id of no order, and for an id that
\* is no ObjectId, for which it rejects); file is the file multer wrote for
\* the request.
FindOrder(h, from, r, file) == Await(h, from, r, "found", findById(r.id), None, file)

\* router.post('/:id/payment-proof', auth, uploadPaymentProof.single(...), ...)
\* through auth and multer: multer writes the file a request brings, named
\* with the clock of this step, before the handler runs; a request without a
\* file goes on into the handler, to its Order.findById.
UploadPaymentProof(h, from, r) ==
    /\ Idle
    /\ r.op = "uploadPaymentProof"
    /\ Arrives(h, from, r)
    /\ IF ~IsSome(auth(r.token))
       THEN Answer(h, from, r, 401, <<>>, None)
       ELSE IF IsSome(r.file)
       THEN Await(h, from, r, "find", None, None,
                  Some(filename(r.id, now, Val(r.file))))
       ELSE FindOrder(h, from, r, None)
    /\ UNCHANGED <<orders, now, checkout, adminPage>>

\* The upload handler runs, the file written, up to its Order.findById.
Find(h) ==
    /\ Idle
    /\ At(h, "find")
    /\ FindOrder(h, Val(inflight[h]).from, Val(inflight[h]).req, Val(inflight[h]).file)
    /\ UNCHANGED <<orders, now, checkout, adminPage>>

\* the check taking any status: C14 fails of it
ValidDeliveryStatusBug(status) == TRUE
\* the check without the enum: C6 fails of it
ValidPaymentStatusBug(status) == IsSome(status)
\* status && ['pending', 'approved', 'rejected'].includes(status)
ValidPaymentStatus(status) == IsSome(status) /\ Val(status) \in PaymentStatuses

\* status && [...].includes(status), for the delivery status
ValidDeliveryStatus(status) == IsSome(status) /\ Val(status) \in DeliveryStatuses

\* the assignments that also hand the order to the admin: C16 fails of it
SetPaymentStatusBug(order, status, t) ==
    [order EXCEPT !.paymentStatus = status, !.userId = "a1", !.updatedAt = t]
\* order.paymentStatus = status; order.updatedAt = Date.now()
SetPaymentStatus(order, status, t) ==
    [order EXCEPT !.paymentStatus = status, !.updatedAt = t]

\* the delivery assignments that also reopen the payment: C18 fails of it
SetDeliveryStatusBug(order, status, t) ==
    [order EXCEPT !.deliveryStatus = status, !.paymentStatus = "pending",
                  !.updatedAt = t]
\* order.deliveryStatus = status; order.updatedAt = Date.now()
SetDeliveryStatus(order, status, t) ==
    [order EXCEPT !.deliveryStatus = status, !.updatedAt = t]

\* router.put('/:id/payment-status', auth, isAdmin, ...) through `await
\* Order.findById(req.params.id)`, which reads the order as it is stored now
UpdatePaymentStatus(h, from, r) ==
    /\ Idle
    /\ r.op = "updatePaymentStatus"
    /\ Arrives(h, from, r)
    /\ LET user == auth(r.token)
       IN  IF ~IsSome(user)
           THEN Answer(h, from, r, 401, <<>>, None)
           ELSE IF ~isAdmin(user)
           THEN Answer(h, from, r, 403, <<>>, None)
           ELSE IF ~ValidPaymentStatus(r.status)
           THEN Answer(h, from, r, 400, <<>>, None)
           ELSE Await(h, from, r, "found", findById(r.id), None, None)
    /\ UNCHANGED <<orders, now, checkout, adminPage>>

\* router.put('/:id/delivery-status', auth, isAdmin, ...) through `await
\* Order.findById(req.params.id)`, which reads the order as it is stored now
UpdateDeliveryStatus(h, from, r) ==
    /\ Idle
    /\ r.op = "updateDeliveryStatus"
    /\ Arrives(h, from, r)
    /\ LET user == auth(r.token)
       IN  IF ~IsSome(user)
           THEN Answer(h, from, r, 401, <<>>, None)
           ELSE IF ~isAdmin(user)
           THEN Answer(h, from, r, 403, <<>>, None)
           ELSE IF ~ValidDeliveryStatus(r.status)
           THEN Answer(h, from, r, 400, <<>>, None)
           ELSE Await(h, from, r, "found", findById(r.id), None, None)
    /\ UNCHANGED <<orders, now, checkout, adminPage>>

\* The upload handler goes on with what Order.findById returned: its checks,
\* its assignments with the clock of this step, and the call of order.save().
ProofFound(h) ==
    LET e == Val(inflight[h])
        user == Val(auth(e.req.token))
    IN  /\ e.req.op = "uploadPaymentProof"
        /\ IF e.req.id = 0
           THEN Answer(h, e.from, e.req, 500, <<>>, e.file)
           ELSE IF ~IsSome(e.read)
           THEN Answer(h, e.from, e.req, 404, <<>>, e.file)
           ELSE IF ~IsOwner(Val(e.read), user)
           THEN Answer(h, e.from, e.req, 403, <<>>, e.file)
           ELSE IF ~IsSome(e.file)
           THEN Answer(h, e.from, e.req, 400, <<>>, e.file)
           ELSE Await(h, e.from, e.req, "save", e.read,
                      Some(AttachProof(Val(e.read), Val(e.file), now)), e.file)

\* The payment-status handler goes on with what Order.findById returned.
PaymentFound(h) ==
    LET e == Val(inflight[h])
    IN  /\ e.req.op = "updatePaymentStatus"
        /\ IF e.req.id = 0
           THEN Answer(h, e.from, e.req, 500, <<>>, None)
           ELSE IF ~IsSome(e.read)
           THEN Answer(h, e.from, e.req, 404, <<>>, None)
           ELSE Await(h, e.from, e.req, "save", e.read,
                      Some(SetPaymentStatus(Val(e.read), Val(e.req.status), now)), None)

\* The delivery-status handler goes on with what Order.findById returned.
DeliveryFound(h) ==
    LET e == Val(inflight[h])
    IN  /\ e.req.op = "updateDeliveryStatus"
        /\ IF e.req.id = 0
           THEN Answer(h, e.from, e.req, 500, <<>>, None)
           ELSE IF ~IsSome(e.read)
           THEN Answer(h, e.from, e.req, 404, <<>>, None)
           ELSE Await(h, e.from, e.req, "save", e.read,
                      Some(SetDeliveryStatus(Val(e.read), Val(e.req.status), now)), None)

\* A handler resumes after its `await Order.findById`.
Found(h) ==
    /\ Idle
    /\ At(h, "found")
    /\ ProofFound(h) \/ PaymentFound(h) \/ DeliveryFound(h)
    /\ UNCHANGED <<orders, now, checkout, adminPage>>

\* order.save() before its write: the timestamps hook stamps updatedAt with
\* the clock of this step and the document is validated.  A document that
\* fails validation is not written and the catch answers 500.
PreSave(h) ==
    /\ Idle
    /\ At(h, "save")
    /\ LET e == Val(inflight[h])
           doc == Stamped(e.read, Val(e.doc), now)
       IN  IF ~ValidOrder(doc)
           THEN Answer(h, e.from, e.req, 500, <<>>, e.file)
           ELSE Await(h, e.from, e.req, "write", e.read, Some(doc), e.file)
    /\ UNCHANGED <<orders, now, checkout, adminPage>>

\* The write of order.save() reaches the collection: a new document is
\* appended, of a document read earlier the modified paths are written, as
\* they were when save() ran its hooks.  The handler, which awaits save(),
\* has not gone on yet.
Save(h) ==
    /\ Idle
    /\ At(h, "write")
    /\ LET e == Val(inflight[h])
           doc == Val(e.doc)
       IN  IF e.req.op = "createOrder"
           THEN LET order == [doc EXCEPT !._id = Len(orders) + 1]
                IN  /\ orders' = Append(orders, order)
                    /\ Await(h, e.from, e.req, "saved", e.read, Some(order), e.file)
           ELSE /\ orders' = [orders EXCEPT
                      ![doc._id] = Saved(orders[doc._id], Val(e.read), doc)]
                /\ Await(h, e.from, e.req, "saved", e.read, e.doc, e.file)
    /\ UNCHANGED <<now, checkout, adminPage>>

\* A handler resumes after its `await order.save()`: it answers, 201 for a
\* new order and 200 otherwise, with the document it holds.
AfterSave(h) ==
    /\ Idle
    /\ At(h, "saved")
    /\ LET e == Val(inflight[h])
       IN  Answer(h, e.from, e.req, IF e.req.op = "createOrder" THEN 201 ELSE 200,
                  <<Val(e.doc)>>, e.file)
    /\ UNCHANGED <<orders, now, checkout, adminPage>>

\* A request of a page reaches its route.
Route(h) ==
    /\ At(h, "sent")
    /\ LET e == Val(inflight[h])
       IN  \/ CreateOrder(h, e.from, e.req)
           \/ GetMyOrders(h, e.from, e.req)
           \/ GetAllOrders(h, e.from, e.req)
           \/ UploadPaymentProof(h, e.from, e.req)
           \/ UpdatePaymentStatus(h, e.from, e.req)
           \/ UpdateDeliveryStatus(h, e.from, e.req)

\* Time passes.
Tick ==
    /\ Idle
    /\ now < MaxClock
    /\ now' = now + 1
    /\ UNCHANGED <<orders, stored, req, res, checkout, adminPage, inflight>>

\* The exchange has been seen.
Finish ==
    /\ ~Idle
    /\ req' = NoRequest
    /\ res' = NoResponse
    /\ stored' = None
    /\ UNCHANGED <<orders, now, checkout, adminPage, inflight>>

----------------------------------------------------------------------------
\* The inputs of the requests.

GoodItem ==
    [productId |-> Some("p1"), name |-> Some("shirt"),
     quantity |-> Some(2), price |-> Some(10)]
FreeItem == [GoodItem EXCEPT !.quantity = Some(1), !.price = Some(0)]
NoQuantityItem == [GoodItem EXCEPT !.quantity = Some(0)]
NoNameItem == [GoodItem EXCEPT !.name = Some("")]

\* the sum over the line items of quantity times price: the cart's
\* getTotalPrice()
RECURSIVE ItemsTotal(_)
ItemsTotal(items) ==
    IF items = <<>> THEN 0
    ELSE Val(Head(items).quantity) * Val(Head(items).price) + ItemsTotal(Tail(items))

Address(fields) == [f \in fields |-> "x"]
FullAddress == Address(AddressFields)

GoodBody ==
    [items |-> Some(<<GoodItem>>), totalAmount |-> Some(20),
     shippingAddress |-> Some(FullAddress), paymentMethod |-> Some("Card"),
     userId |-> None, paymentStatus |-> None]

\* A body that also names an owner and a payment status.
Forged(body) == [body EXCEPT !.userId = Some("a1"), !.paymentStatus = Some("approved")]

\* The bodies of the lifecycle: a complete one, a forged one, and two the
\* route turns down.
Bodies ==
    {GoodBody,
     Forged(GoodBody),
     [GoodBody EXCEPT !.items = Some(<<>>)],
     [GoodBody EXCEPT !.shippingAddress = Some(Address(AddressFields \ {"street"}))]}

\* The bodies of order creation.
ItemsInputs ==
    {None, Some(<<>>), Some(<<GoodItem>>), Some(<<GoodItem, NoQuantityItem>>),
     Some(<<NoNameItem>>)}
TotalInputs == {None, Some(0), Some(20), Some(-5)}
AddressInputs ==
    {None, Some(FullAddress), Some([FullAddress EXCEPT !.street = ""])}
    \cup {Some(Address(AddressFields \ {f})) : f \in AddressFields}
MethodInputs == {None, Some(""), Some("Card")}

AllBodies ==
    {[GoodBody EXCEPT !.items = i, !.totalAmount = t, !.shippingAddress = a] :
        i \in ItemsInputs, t \in TotalInputs, a \in AddressInputs}
    \cup {[GoodBody EXCEPT !.items = Some(<<FreeItem>>), !.totalAmount = Some(0)]}
    \cup {[GoodBody EXCEPT !.paymentMethod = m] : m \in MethodInputs}
    \cup {Forged(GoodBody), Forged([GoodBody EXCEPT !.items = Some(<<>>)])}

\* The status of a request: absent, out of the enum, or of the enum.  The
\* lifecycle takes every payment status and, of the delivery statuses, the
\* shipment.
PaymentInputs == {None, Some("bogus")} \cup {Some(s) : s \in PaymentStatuses}
DeliveryInputs == {None, Some("bogus"), Some("shipped")}

FileInputs == {None, Some([ext |-> ".png"])}

\* The tokens of the lifecycle: the users' and an absent one.
TokenInputs == Users \cup {"none"}

\* The requests of the routes, by their inputs.
Create(token, body) == Request("createOrder", token, 0, None, None, body)
MyOrders(token) == Request("getMyOrders", token, 0, None, None, NoBody)
AllOrders(token) == Request("getAllOrders", token, 0, None, None, NoBody)
Upload(token, id, file) == Request("uploadPaymentProof", token, id, None, file, NoBody)
Payment(token, id, status) == Request("updatePaymentStatus", token, id, status, None, NoBody)
Delivery(token, id, status) == Request("updateDeliveryStatus", token, id, status, None, NoBody)

----------------------------------------------------------------------------
\* The checkout page.  Its handlers await the API: each is modelled up to
\* its api.post, which sends the request, and from the response on.

\* CheckoutPage's state as constructed, for the cart and the user of its
\* contexts: step 1, not loading, no file, no order id, an empty address,
\* paying by Mobile Money.
CheckoutPage(items, user) ==
    [step |-> 1, loading |-> FALSE, paymentProof |-> None, currentOrderId |-> None,
     shippingAddress |-> [f \in AddressFields |-> ""],
     paymentMethod |-> "Mobile Money",
     items |-> items, user |-> user]

\* the page shows its steps (for an empty cart it shows 'Your cart is empty')
Shown(c) == ~(c.items = <<>> /\ c.step # 3)

\* 'Proceed to Payment' is enabled
CanProceed(c) ==
    /\ ~c.loading
    /\ c.items # <<>>
    /\ \A f \in RequiredAddress : c.shippingAddress[f] # ""

\* The tokens the page's requests may carry: the user's, or one that has
\* expired.
SessionTokens(c) == IF IsSome(c.user) THEN {Val(c.user), "invalid"} ELSE {"none"}

\* onChange of the address fields on step 1
SetShippingAddress(address) ==
    /\ Idle
    /\ Shown(checkout) /\ checkout.step = 1
    /\ checkout' = [checkout EXCEPT !.shippingAddress = address]
    /\ UNCHANGED <<orders, stored, now, req, res, adminPage, inflight>>

\* the body handlePlaceOrder posts
OrderBody(c) ==
    [items |-> Some(c.items), totalAmount |-> Some(ItemsTotal(c.items)),
     shippingAddress |-> Some(c.shippingAddress), paymentMethod |-> Some(c.paymentMethod),
     userId |-> None, paymentStatus |-> None]

\* handlePlaceOrder up to api.post('/api/orders', ...): without a user, an
\* item or a required address field it returns at once
HandlePlaceOrder(h, token) ==
    /\ Idle
    /\ Shown(checkout) /\ checkout.step = 1
    /\ CanProceed(checkout)
    /\ IF \/ ~IsSome(checkout.user)
          \/ checkout.items = <<>>
          \/ \E f \in RequiredAddress : checkout.shippingAddress[f] = ""
       THEN /\ checkout' = [checkout EXCEPT !.loading = FALSE]
            /\ UNCHANGED inflight
       ELSE /\ inflight[h] = None
            /\ checkout' = [checkout EXCEPT !.loading = TRUE]
            /\ inflight' = [inflight EXCEPT ![h] =
                  Some(Sent("checkout",
                            Request("createOrder", token, 0, None, None,
                                    OrderBody(checkout))))]
    /\ UNCHANGED <<orders, stored, now, req, res, adminPage>>

\* the page going to step 2 whatever the response: C27 fails of it
PlacedOrderBug(c, r) ==
    [c EXCEPT !.currentOrderId = IF r.status = 201 THEN Some(r.orders[1]._id) ELSE @,
              !.step = 2, !.loading = FALSE]
\* handlePlaceOrder from the response on: setCurrentOrderId and setStep(2), or
\* the catch; finally setLoading(false)
PlacedOrder(c, r) ==
    IF r.status = 201
    THEN [c EXCEPT !.currentOrderId = Some(r.orders[1]._id), !.step = 2,
                   !.loading = FALSE]
    ELSE [c EXCEPT !.loading = FALSE]

\* the response of invocation h has reached the page client, which had sent op
Heard(h, client, op) ==
    /\ At(h, "answered")
    /\ Val(inflight[h]).from = client
    /\ Val(inflight[h]).req.op = op

\* The page hears of its POST /api/orders.
PlaceOrderDone(h) ==
    /\ Idle
    /\ Heard(h, "checkout", "createOrder")
    /\ checkout' = PlacedOrder(checkout, Val(inflight[h]).res)
    /\ inflight' = [inflight EXCEPT ![h] = None]
    /\ UNCHANGED <<orders, stored, now, req, res, adminPage>>

\* onChange of the file input on step 2: a file over 5MB is not taken
SelectFile(file) ==
    /\ Idle
    /\ Shown(checkout) /\ checkout.step = 2
    /\ checkout' = IF file.size > 5 THEN checkout
                   ELSE [checkout EXCEPT !.paymentProof = Some(file)]
    /\ UNCHANGED <<orders, stored, now, req, res, adminPage, inflight>>

\* the options of the select of step 2
PaymentMethods == {"Mobile Money", "Bank Transfer", "Card"}

\* onChange of the select of step 2: setPaymentMethod(e.target.value)
SetPaymentMethod(method) ==
    /\ Idle
    /\ Shown(checkout) /\ checkout.step = 2
    /\ checkout' = [checkout EXCEPT !.paymentMethod = method]
    /\ UNCHANGED <<orders, stored, now, req, res, adminPage, inflight>>

\* the Back button of step 2: setStep(1)
Back ==
    /\ Idle
    /\ Shown(checkout) /\ checkout.step = 2
    /\ checkout' = [checkout EXCEPT !.step = 1]
    /\ UNCHANGED <<orders, stored, now, req, res, adminPage, inflight>>

\* handlePaymentProofSubmit up to api.post(`/api/orders/${currentOrderId}/payment-proof`)
HandlePaymentProofSubmit(h, token) ==
    /\ Idle
    /\ Shown(checkout) /\ checkout.step = 2
    /\ ~checkout.loading /\ IsSome(checkout.paymentProof) /\ IsSome(checkout.currentOrderId)
    /\ inflight[h] = None
    /\ checkout' = [checkout EXCEPT !.loading = TRUE]
    /\ inflight' = [inflight EXCEPT ![h] =
          Some(Sent("checkout",
                    Request("uploadPaymentProof", token, Val(checkout.currentOrderId),
                            None, checkout.paymentProof, NoBody)))]
    /\ UNCHANGED <<orders, stored, now, req, res, adminPage>>

\* handlePaymentProofSubmit from the response on: clearCart() and setStep(3),
\* or the catch; finally setLoading(false)
UploadedProof(c, r) ==
    IF r.status = 200
    THEN [c EXCEPT !.items = <<>>, !.step = 3, !.loading = FALSE]
    ELSE [c EXCEPT !.loading = FALSE]

\* The page hears of its payment-proof upload.
PaymentProofDone(h) ==
    /\ Idle
    /\ Heard(h, "checkout", "uploadPaymentProof")
    /\ checkout' = UploadedProof(checkout, Val(inflight[h]).res)
    /\ inflight' = [inflight EXCEPT ![h] = None]
    /\ UNCHANGED <<orders, stored, now, req, res, adminPage>>

----------------------------------------------------------------------------
\* The admin's order management page (OrderManagement with isAdmin, and its
\* OrderTable), in the session of the admin a1.

\* OrderManagement's state as constructed: useState<Order[]>([]) and
\* isLoading true; mounted is false until the effect has run that fetches
\* the orders.
OrderManagement == [orders |-> <<>>, isLoading |-> TRUE, mounted |-> FALSE]

\* The tokens the page's requests may carry: the admin's, or one that has
\* expired.
AdminTokens == {"a1", "invalid"}

\* OrderTable's actions menu of a listed order, each item by the arguments it
\* passes to onUpdateStatus(order._id, newPaymentStatus, newDeliveryStatus)
MenuItems(order) ==
    (IF order.paymentStatus = "pending"
     THEN {[payment |-> Some(s), delivery |-> None] : s \in {"approved", "rejected"}}
     ELSE {})
    \cup
    (IF order.deliveryStatus # "delivered" /\ order.deliveryStatus # "cancelled"
     THEN {[payment |-> None, delivery |-> Some(s)] :
              s \in {"processing", "shipped", "delivered"}}
     ELSE {})

\* fetchOrders up to api.get('/api/orders'): it runs when the page is mounted
\* and on Refresh, which the page offers when it is not loading.
FetchOrders(h, token) ==
    /\ Idle
    /\ ~adminPage.mounted \/ ~adminPage.isLoading
    /\ inflight[h] = None
    /\ adminPage' = [adminPage EXCEPT !.isLoading = TRUE, !.mounted = TRUE]
    /\ inflight' = [inflight EXCEPT ![h] =
          Some(Sent("admin", Request("getAllOrders", token, 0, None, None, NoBody)))]
    /\ UNCHANGED <<orders, stored, now, req, res, checkout>>

\* fetchOrders from the response on: setOrders(response.data.orders), or the
\* catch, which keeps the orders; finally setIsLoading(false)
FetchedOrders(m, r) ==
    IF r.status = 200
    THEN [m EXCEPT !.orders = r.orders, !.isLoading = FALSE]
    ELSE [m EXCEPT !.isLoading = FALSE]

\* The page hears of its GET /api/orders.
FetchOrdersDone(h) ==
    /\ Idle
    /\ Heard(h, "admin", "getAllOrders")
    /\ adminPage' = FetchedOrders(adminPage, Val(inflight[h]).res)
    /\ inflight' = [inflight EXCEPT ![h] = None]
    /\ UNCHANGED <<orders, stored, now, req, res, checkout>>

\* handleStatusChange up to its api.put, for the item picked in the menu of
\* the k-th order of the table, which is shown when the page is not loading
HandleStatusChange(h, token, k, item) ==
    /\ Idle
    /\ adminPage.mounted /\ ~adminPage.isLoading
    /\ k \in DOMAIN adminPage.orders
    /\ item \in MenuItems(adminPage.orders[k])
    /\ inflight[h] = None
    /\ adminPage' = [adminPage EXCEPT !.isLoading = TRUE]
    /\ inflight' = [inflight EXCEPT ![h] =
          Some(Sent("admin",
                    IF IsSome(item.payment)
                    THEN Request("updatePaymentStatus", token, adminPage.orders[k]._id,
                                 item.payment, None, NoBody)
                    ELSE Request("updateDeliveryStatus", token, adminPage.orders[k]._id,
                                 item.delivery, None, NoBody)))]
    /\ UNCHANGED <<orders, stored, now, req, res, checkout>>

\* handleStatusChange from the response of its PUT on: after a success it
\* calls fetchOrders() without awaiting it, so the GET goes out (with the
\* token the session has by then) and finally setIsLoading(false) shows the
\* table again, with the orders it had; after a failure only the finally
\* runs.
StatusChangeDone(h, token) ==
    /\ Idle
    /\ \/ Heard(h, "admin", "updatePaymentStatus")
       \/ Heard(h, "admin", "updateDeliveryStatus")
    /\ adminPage' = [adminPage EXCEPT !.isLoading = FALSE]
    /\ inflight' = [inflight EXCEPT ![h] =
          IF Val(inflight[h]).res.status = 200
          THEN Some(Sent("admin", Request("getAllOrders", token, 0, None, None, NoBody)))
          ELSE None]
    /\ UNCHANGED <<orders, stored, now, req, res, checkout>>

\* every item a menu may hold
AllMenuItems ==
    {[payment |-> Some(s), delivery |-> None] : s \in PaymentStatuses}
    \cup {[payment |-> None, delivery |-> Some(s)] : s \in DeliveryStatuses}

----------------------------------------------------------------------------
\* The specifications.

\* The server after start-up: no order, no request.
ServerInit ==
    /\ orders = <<>>
    /\ stored = None
    /\ now = 0
    /\ req = NoRequest
    /\ res = NoResponse
    /\ inflight = [h \in Handlers |-> None]

\* The server and the pages as constructed, the cart empty and nobody logged
\* in on the checkout page.
Init ==
    /\ ServerInit
    /\ checkout = CheckoutPage(<<>>, None)
    /\ adminPage = OrderManagement

\* The order creations under way: sent by a page, or before their write.
Creating ==
    {h \in Handlers : /\ IsSome(inflight[h])
                      /\ Val(inflight[h]).req.op = "createOrder"
                      /\ Val(inflight[h]).pc \in {"sent", "save", "write"}}

\* The clients send a creation while the store, with the creations under
\* way, holds fewer than MaxOrders orders.
Room == Len(orders) + Cardinality(Creating) < MaxOrders

\* The lifecycle of orders: every route, one request at a time, all of them
\* within one tick of the clock.  The uploads and the status updates are
\* those of the users; every route under every kind of token is NextAuth.
Next ==
    \/ /\ Room
       /\ \E token \in TokenInputs, body \in Bodies :
             CreateOrder("h1", "api", Create(token, body))
    \/ \E token \in TokenInputs : GetMyOrders("h1", "api", MyOrders(token))
    \/ \E token \in TokenInputs : GetAllOrders("h1", "api", AllOrders(token))
    \/ \E token \in Users, id \in RequestIds, file \in FileInputs :
          UploadPaymentProof("h1", "api", Upload(token, id, file))
    \/ \E token \in Users, id \in RequestIds, status \in PaymentInputs :
          UpdatePaymentStatus("h1", "api", Payment(token, id, status))
    \/ \E token \in Users, id \in RequestIds, status \in DeliveryInputs :
          UpdateDeliveryStatus("h1", "api", Delivery(token, id, status))
    \/ Find("h1")
    \/ Found("h1")
    \/ PreSave("h1")
    \/ Save("h1")
    \/ AfterSave("h1")
    \/ Listed("h1")
    \/ Finish

Spec == Init /\ [][Next]_vars

\* Order creation and the listings, over all bodies and tokens, as time
\* passes; meanwhile the customer places a complete order.
NextCreate ==
    \/ /\ Room
       /\ \E token \in Tokens, body \in AllBodies :
             CreateOrder("h1", "api", Create(token, body))
    \/ \E token \in Tokens : GetMyOrders("h1", "api", MyOrders(token))
    \/ \E token \in Tokens : GetAllOrders("h1", "api", AllOrders(token))
    \/ Room /\ CreateOrder("h2", "api", Create("u1", GoodBody))
    \/ \E h \in Handlers : PreSave(h)
    \/ \E h \in Handlers : Save(h)
    \/ \E h \in Handlers : AfterSave(h)
    \/ \E h \in Handlers : Listed(h)
    \/ Tick
    \/ Finish

SpecCreate == Init /\ [][NextCreate]_vars

\* The bodies whose totalAmount the client chose freely: complete orders of
\* one or two lines with a total of 0, 5 or 20.
TotalBodies ==
    {[GoodBody EXCEPT !.items = Some(i), !.totalAmount = Some(t)] :
        i \in {<<GoodItem>>, <<FreeItem>>, <<GoodItem, FreeItem>>}, t \in {0, 5, 20}}

\* Order creation over the totals a client may send, and the listings.
NextTotals ==
    \/ /\ Room
       /\ \E token \in TokenInputs, body \in TotalBodies :
             CreateOrder("h1", "api", Create(token, body))
    \/ \E token \in TokenInputs : GetMyOrders("h1", "api", MyOrders(token))
    \/ \E token \in TokenInputs : GetAllOrders("h1", "api", AllOrders(token))
    \/ PreSave("h1")
    \/ Save("h1")
    \/ AfterSave("h1")
    \/ Listed("h1")
    \/ Finish

SpecTotals == Init /\ [][NextTotals]_vars

\* Every route under every token: one complete body, one approval, one
\* shipment, with and without a file.
NextAuth ==
    \/ Room /\ \E token \in Tokens : CreateOrder("h1", "api", Create(token, GoodBody))
    \/ \E token \in Tokens : GetMyOrders("h1", "api", MyOrders(token))
    \/ \E token \in Tokens : GetAllOrders("h1", "api", AllOrders(token))
    \/ \E token \in Tokens, id \in RequestIds, file \in FileInputs :
          UploadPaymentProof("h1", "api", Upload(token, id, file))
    \/ \E token \in Tokens, id \in RequestIds :
          UpdatePaymentStatus("h1", "api", Payment(token, id, Some("approved")))
    \/ \E token \in Tokens, id \in RequestIds :
          UpdateDeliveryStatus("h1", "api", Delivery(token, id, Some("shipped")))
    \/ Find("h1")
    \/ Found("h1")
    \/ PreSave("h1")
    \/ Save("h1")
    \/ AfterSave("h1")
    \/ Listed("h1")
    \/ Finish

SpecAuth == Init /\ [][NextAuth]_vars

\* The files a client may post as payment proof: multer's file object, its
\* extension and its size in megabytes.
UploadFiles == {[ext |-> x, size |-> n] : x \in {".png", ".pdf", ".exe"}, n \in {1, 6}}

\* Proof uploads over every kind of file, by the users on their orders.
NextUpload ==
    \/ Room /\ \E token \in Users : CreateOrder("h1", "api", Create(token, GoodBody))
    \/ \E token \in Users, id \in RequestIds, file \in {None} \cup {Some(f) : f \in UploadFiles} :
          UploadPaymentProof("h1", "api", Upload(token, id, file))
    \/ \E token \in Users : GetMyOrders("h1", "api", MyOrders(token))
    \/ Find("h1")
    \/ Found("h1")
    \/ PreSave("h1")
    \/ Save("h1")
    \/ AfterSave("h1")
    \/ Listed("h1")
    \/ Finish

SpecUpload == Init /\ [][NextUpload]_vars

\* The store when the admin page opens: a customer has placed an order.
InitAdmin ==
    /\ orders = <<NewOrder(1, UserDoc("u1"), GoodBody, 0)>>
    /\ stored = None
    /\ now = 0
    /\ req = NoRequest
    /\ res = NoResponse
    /\ inflight = [h \in Handlers |-> None]
    /\ checkout = CheckoutPage(<<>>, None)
    /\ adminPage = OrderManagement

\* The admin page over the order of the customer, next to an admin who
\* cancels it straight through the API.  The session may have expired when
\* the page fetches or changes a status; the refetch after a change that
\* went through carries the admin's token.
NextAdmin ==
    \/ \E h \in Handlers, token \in AdminTokens : FetchOrders(h, token)
    \/ \E h \in Handlers : FetchOrdersDone(h)
    \/ \E h \in Handlers, token \in AdminTokens, k \in 1..MaxOrders, item \in AllMenuItems :
          HandleStatusChange(h, token, k, item)
    \/ \E h \in Handlers : StatusChangeDone(h, "a1")
    \/ \E h \in Handlers, id \in 1..MaxOrders :
          UpdateDeliveryStatus(h, "api", Delivery("a1", id, Some("cancelled")))
    \/ \E h \in Handlers : Route(h)
    \/ \E h \in Handlers : Found(h)
    \/ \E h \in Handlers : PreSave(h)
    \/ \E h \in Handlers : Save(h)
    \/ \E h \in Handlers : AfterSave(h)
    \/ \E h \in Handlers : Listed(h)
    \/ Finish

SpecAdmin == InitAdmin /\ [][NextAdmin]_vars

\* Two requests at a time on the first order of a customer: the admin's
\* decisions on its payment and on its delivery, proof uploads for it, and
\* the listings.  The requests of users who may not make them, on orders of
\* either user, are NextGate's.
NextRace ==
    \/ Room /\ \E h \in Handlers : CreateOrder(h, "api", Create("u1", GoodBody))
    \/ \E h \in Handlers, status \in PaymentStatuses :
          UpdatePaymentStatus(h, "client", Payment("a1", 1, Some(status)))
    \/ \E h \in Handlers, status \in {"processing", "shipped"} :
          UpdateDeliveryStatus(h, "client", Delivery("a1", 1, Some(status)))
    \/ \E h \in Handlers, token \in Users, file \in FileInputs :
          UploadPaymentProof(h, "api", Upload(token, 1, file))
    \/ \E h \in Handlers : GetMyOrders(h, "api", MyOrders("u1"))
    \/ \E h \in Handlers : GetAllOrders(h, "api", AllOrders("a1"))
    \/ \E h \in Handlers : Find(h)
    \/ \E h \in Handlers : Found(h)
    \/ \E h \in Handlers : PreSave(h)
    \/ \E h \in Handlers : Save(h)
    \/ \E h \in Handlers : AfterSave(h)
    \/ \E h \in Handlers : Listed(h)
    \/ \E h \in Handlers : Received(h)
    \/ Finish

SpecRace == Init /\ [][NextRace]_vars

\* The gates of the status fields: both users place orders, also with a body
\* that names an owner and an approved payment; both ask for a payment
\* decision on every order and upload a proof for every order; the customer
\* asks for the shipment of every order.  Meanwhile the admin approves the
\* payment of the first order.
NextGate ==
    \/ /\ Room
       /\ \E token \in Users, body \in {GoodBody, Forged(GoodBody)} :
             CreateOrder("h1", "api", Create(token, body))
    \/ \E token \in Users, id \in 1..MaxOrders, status \in {"approved", "rejected"} :
          UpdatePaymentStatus("h1", "api", Payment(token, id, Some(status)))
    \/ \E id \in 1..MaxOrders :
          UpdateDeliveryStatus("h1", "api", Delivery("u1", id, Some("shipped")))
    \/ \E token \in Users, id \in 1..MaxOrders :
          UploadPaymentProof("h1", "client", Upload(token, id, Some([ext |-> ".png"])))
    \/ UpdatePaymentStatus("h2", "api", Payment("a1", 1, Some("approved")))
    \/ \E h \in Handlers : Find(h)
    \/ \E h \in Handlers : Found(h)
    \/ \E h \in Handlers : PreSave(h)
    \/ \E h \in Handlers : Save(h)
    \/ \E h \in Handlers : AfterSave(h)
    \/ Received("h1")
    \/ Finish

SpecGate == Init /\ [][NextGate]_vars

\* The carts and users the page opens with; the addresses typed; the files
\* picked.
Carts == {<<GoodItem>>, <<FreeItem>>, <<GoodItem, FreeItem>>}
TypedAddresses == {FullAddress, [FullAddress EXCEPT !.street = ""]}
PickedFiles == {[ext |-> x, size |-> n] : x \in {".png", ".pdf"}, n \in {1, 6}}

InitCheckout ==
    /\ ServerInit
    /\ adminPage = OrderManagement
    /\ checkout \in {CheckoutPage(items, user) : items \in Carts, user \in {None, Some("u1")}}

\* One visit of the checkout page.
NextCheckout ==
    \/ \E address \in TypedAddresses : SetShippingAddress(address)
    \/ Room /\ \E h \in Handlers, token \in SessionTokens(checkout) : HandlePlaceOrder(h, token)
    \/ \E h \in Handlers : PlaceOrderDone(h)
    \/ \E file \in PickedFiles : SelectFile(file)
    \/ \E method \in PaymentMethods : SetPaymentMethod(method)
    \/ Back
    \/ \E h \in Handlers, token \in SessionTokens(checkout) : HandlePaymentProofSubmit(h, token)
    \/ \E h \in Handlers : PaymentProofDone(h)
    \/ \E h \in Handlers : Route(h)
    \/ \E h \in Handlers : Find(h)
    \/ \E h \in Handlers : Found(h)
    \/ \E h \in Handlers : PreSave(h)
    \/ \E h \in Handlers : Save(h)
    \/ \E h \in Handlers : AfterSave(h)
    \/ Tick
    \/ Finish

SpecCheckout == InitCheckout /\ [][NextCheckout]_vars

----------------------------------------------------------------------------
\* The claims.  A step that answers a request leaves it in req' and its
\* response in res'.  The store changes in the step in which the write of an
\* invocation's order.save() lands: orders is the store before that step,
\* orders' after it.

Stored(id) == id \in 1..Len(orders)
Authenticated(r) == r.token \in Users
NonAdmin(r) == Authenticated(r) /\ UserDoc(r.token).role # "admin"
Admin(r) == Authenticated(r) /\ UserDoc(r.token).role = "admin"
ListedSet(list) == {list[i] : i \in DOMAIN list}

\* the request invocation h handles
RequestOf(h) == Val(inflight[h]).req
\* the invocations whose write lands in this step
Writer ==
    {h \in Handlers : At(h, "write") /\ IsSome(inflight'[h]) /\ Val(inflight'[h]).pc = "saved"}
\* the invocations that return from Order.find in this step
Lister ==
    {h \in Handlers : ~At(h, "listed") /\ IsSome(inflight'[h]) /\ Val(inflight'[h]).pc = "listed"}
\* the request answered in this step is that of an invocation at pc, which
\* this step ends
AnsweredFrom(pc) ==
    \E h \in Handlers : At(h, pc) /\ RequestOf(h) = req' /\ inflight'[h] # inflight[h]
\* the stored orders the listing request r is to show
ToList(r) ==
    {orders[i] : i \in {j \in 1..Len(orders) :
                          r.op = "getAllOrders" \/ orders[j].userId = r.token}}

\* C1: a payment-status or delivery-status update requested by a non-admin
\* identity is answered 403 and no write of such a request reaches the
\* store, whatever the order id and the requested status.
C1_Case(r) == r.op \in {"updatePaymentStatus", "updateDeliveryStatus"} /\ NonAdmin(r)

C1_NonAdminStatusUpdateRejected ==
    [][/\ C1_Case(req') => res'.status = 403
       /\ \A h \in Writer : ~C1_Case(RequestOf(h))]_vars

\* the customer asks to approve the payment of their own stored order
C1_Witness ==
    /\ req.op = "updatePaymentStatus"
    /\ req.token = "u1"
    /\ Stored(req.id) /\ orders[req.id].userId = "u1"
    /\ req.status = Some("approved")
    /\ res.status = 403

\* C2: a payment-proof upload by an authenticated identity that does not own
\* the stored order it names (an admin included) is answered 403 and no
\* write of it reaches the store: the order's paymentProof and paymentStatus
\* stay as they were.
C2_Case(r) ==
    /\ r.op = "uploadPaymentProof"
    /\ Authenticated(r)
    /\ Stored(r.id)
    /\ orders[r.id].userId # r.token

C2_NonOwnerProofRejected ==
    [][/\ C2_Case(req') => res'.status = 403
       /\ \A h \in Writer : ~C2_Case(RequestOf(h))]_vars

\* the admin sends a file for the customer's approved order
C2_Witness ==
    /\ req.op = "uploadPaymentProof"
    /\ req.token = "a1"
    /\ IsSome(req.file)
    /\ Stored(req.id) /\ orders[req.id].userId = "u1"
    /\ orders[req.id].paymentStatus = "approved"
    /\ res.status = 403

\* C3: a payment-proof upload is answered 200 once its write has landed, and
\* its write leaves the order with paymentStatus pending, whatever it was,
\* and with paymentProof the path of the file stored for this request.
C3_UploadResetsToPending ==
    [][/\ (req'.op = "uploadPaymentProof" /\ res'.status = 200)
             => (AnsweredFrom("saved") /\ IsSome(stored'))
       /\ \A h \in Writer :
             RequestOf(h).op = "uploadPaymentProof"
                => LET r == RequestOf(h)
                       file == Val(inflight[h]).file
                   IN  /\ Stored(r.id)
                       /\ orders[r.id].userId = r.token
                       /\ orders'[r.id].paymentStatus = "pending"
                       /\ IsSome(file)
                       /\ \E t \in 0..now : Val(file) = filename(r.id, t, Val(r.file))
                       /\ orders'[r.id].paymentProof = Some(ProofPath(Val(file)))]_vars

\* C4: the listing of an identity's own orders is answered 200 with what
\* Order.find read, which is exactly the orders stored at that read whose
\* userId is the caller's id, each once; every order of the answer is, also
\* when the answer is sent, a stored order of the caller.
C4_MyOrdersExactlyOwn ==
    /\ [][/\ (req'.op = "getMyOrders" /\ Authenticated(req'))
                => /\ res'.status = 200
                   /\ \E h \in Handlers :
                         /\ At(h, "listed")
                         /\ RequestOf(h) = req'
                         /\ inflight'[h] # inflight[h]
                         /\ res'.orders = Val(inflight[h]).list
          /\ \A h \in Lister :
                Val(inflight'[h]).req.op = "getMyOrders"
                   => /\ ListedSet(Val(inflight'[h]).list) = ToList(Val(inflight'[h]).req)
                      /\ Len(Val(inflight'[h]).list)
                            = Cardinality(ListedSet(Val(inflight'[h]).list))]_vars
    /\ []((req.op = "getMyOrders" /\ res.status = 200)
             => \A k \in DOMAIN res.orders :
                   /\ res.orders[k].userId = req.token
                   /\ Stored(res.orders[k]._id)
                   /\ orders[res.orders[k]._id].userId = req.token)

\* the customer lists one order while the store also holds the admin's
C4_Witness ==
    /\ req.op = "getMyOrders"
    /\ req.token = "u1"
    /\ Len(res.orders) = 1
    /\ Len(orders) = 2
    /\ \E i \in 1..Len(orders) : orders[i].userId = "a1"

\* C5: an order creation by an authenticated identity whose items are absent
\* or empty is answered 400 and adds no order: no write of it reaches the
\* store.
C5_Case(r) ==
    /\ r.op = "createOrder"
    /\ Authenticated(r)
    /\ (~IsSome(r.body.items) \/ Val(r.body.items) = <<>>)

C5_EmptyItemsRejected ==
    [][/\ C5_Case(req') => res'.status = 400
       /\ \A h \in Writer : ~C5_Case(RequestOf(h))]_vars

\* an otherwise complete body with an empty items list was turned down
C5_Witness ==
    /\ req.op = "createOrder"
    /\ req.body = [GoodBody EXCEPT !.items = Some(<<>>)]
    /\ Authenticated(req)
    /\ res.status = 400

\* C6: a payment-status update by an admin whose status is absent or outside
\* {pending, approved, rejected} is answered 400 and no write of it reaches
\* the store, also when the id names no stored order.
C6_Case(r) ==
    /\ r.op = "updatePaymentStatus"
    /\ Admin(r)
    /\ (~IsSome(r.status) \/ Val(r.status) \notin PaymentStatuses)

C6_BadPaymentStatusRejected ==
    [][/\ C6_Case(req') => res'.status = 400
       /\ \A h \in Writer : ~C6_Case(RequestOf(h))]_vars

\* the admin sent an unknown status for an id of no order
C6_Witness ==
    /\ req.op = "updatePaymentStatus"
    /\ req.token = "a1"
    /\ req.status = Some("bogus")
    /\ req.id = Len(orders) + 1
    /\ res.status = 400

\* C7: the write of an order creation appends one order, owned by the
\* caller, with the caller's name and email, paymentStatus pending and
\* deliveryStatus pending, whatever else the body names; a creation is
\* answered 201 once its write has landed, with the order it appended.
C7_CreatedOrderOwnedAndPending ==
    [][/\ \A h \in Writer :
             RequestOf(h).op = "createOrder"
                => /\ Authenticated(RequestOf(h))
                   /\ Len(orders') = Len(orders) + 1
                   /\ SubSeq(orders', 1, Len(orders)) = orders
                   /\ Val(inflight'[h]).doc = Some(orders'[Len(orders')])
                   /\ LET o == orders'[Len(orders')]
                      IN  /\ o.userId = RequestOf(h).token
                          /\ o.clientName = UserDoc(RequestOf(h).token).name
                          /\ o.clientEmail = UserDoc(RequestOf(h).token).email
                          /\ o.paymentStatus = "pending"
                          /\ o.deliveryStatus = "pending"
       /\ (req'.op = "createOrder" /\ res'.status = 201)
             => \E h \in Handlers :
                   /\ At(h, "saved")
                   /\ RequestOf(h) = req'
                   /\ inflight'[h] # inflight[h]
                   /\ res'.orders = <<Val(Val(inflight[h]).doc)>>
                   /\ res'.orders[1].userId = req'.token]_vars

\* the customer's body named the admin as owner and an approved payment
C7_Witness ==
    /\ req.op = "createOrder"
    /\ req.token = "u1"
    /\ req.body = Forged(GoodBody)
    /\ res.status = 201
    /\ orders[res.orders[1]._id].userId = "u1"
    /\ orders[res.orders[1]._id].paymentStatus = "pending"

\* C8: an order creation by an authenticated identity whose shipping address
\* lacks a required field (street, city, zipCode, country) is answered 400,
\* as for empty items, and adds no order.
C8_Case(r) ==
    /\ r.op = "createOrder"
    /\ Authenticated(r)
    /\ IsSome(r.body.shippingAddress)
    /\ ~(RequiredAddress \subseteq DOMAIN Val(r.body.shippingAddress))

C8_MissingAddressFieldIs400 ==
    [][/\ C8_Case(req') => res'.status = 400
       /\ \A h \in Writer : ~C8_Case(RequestOf(h))]_vars

\* C9: an order creation by an authenticated identity with a non-empty list
\* of valid items, a totalAmount >= 0, a complete address and a payment
\* method is answered 201, its order appended, a totalAmount of 0 included.
C9_CompleteOrderAccepted ==
    [][(/\ req'.op = "createOrder"
        /\ Authenticated(req')
        /\ IsSome(req'.body.items)
        /\ Val(req'.body.items) # <<>>
        /\ \A i \in DOMAIN Val(req'.body.items) : ValidItem(Val(req'.body.items)[i])
        /\ IsSome(req'.body.totalAmount) /\ Val(req'.body.totalAmount) >= 0
        /\ IsSome(req'.body.shippingAddress)
        /\ RequiredAddress \subseteq DOMAIN Val(req'.body.shippingAddress)
        /\ \A f \in RequiredAddress : Val(req'.body.shippingAddress)[f] # ""
        /\ IsSome(req'.body.paymentMethod) /\ Val(req'.body.paymentMethod) # "")
          => (res'.status = 201 /\ AnsweredFrom("saved"))]_vars

\* C10: the listing of all orders answers an admin with what Order.find
\* read, which is every order stored at that read, each once, and any other
\* authenticated identity with 403 and no order; Order.find reads for an
\* admin only.
C10_AllOrdersOnlyForAdmin ==
    [][/\ (req'.op = "getAllOrders" /\ Authenticated(req'))
             => IF UserDoc(req'.token).role = "admin"
                THEN /\ res'.status = 200
                     /\ \E h \in Handlers :
                           /\ At(h, "listed")
                           /\ RequestOf(h) = req'
                           /\ inflight'[h] # inflight[h]
                           /\ res'.orders = Val(inflight[h]).list
                ELSE res'.status = 403 /\ res'.orders = <<>>
       /\ \A h \in Lister :
             Val(inflight'[h]).req.op = "getAllOrders"
                => /\ Admin(Val(inflight'[h]).req)
                   /\ ListedSet(Val(inflight'[h]).list) = {orders[i] : i \in 1..Len(orders)}
                   /\ Len(Val(inflight'[h]).list) = Len(orders)]_vars

\* the customer was refused the listing of a store that holds two orders
C10_Witness ==
    /\ req.op = "getAllOrders"
    /\ req.token = "u1"
    /\ Len(orders) = 2
    /\ res.status = 403

\* C11 as stated: no write of a request of a non-admin identity changes the
\* paymentStatus or the deliveryStatus of a stored order.
C11_NonAdminNeverChangesStatus ==
    [][\A h \in Writer :
          NonAdmin(RequestOf(h))
             => \A i \in 1..Len(orders) :
                   /\ orders'[i].paymentStatus = orders[i].paymentStatus
                   /\ orders'[i].deliveryStatus = orders[i].deliveryStatus]_vars

\* C11, amended: a write of a request of a non-admin identity never changes
\* a deliveryStatus, and changes a paymentStatus only as the write of the
\* owner's payment-proof upload, which sets that order's paymentStatus to
\* pending.
C11_NonAdminOnlyResetsOwnPayment ==
    [][\A h \in Writer :
          NonAdmin(RequestOf(h))
             => \A i \in 1..Len(orders) :
                   /\ orders'[i].deliveryStatus = orders[i].deliveryStatus
                   /\ \/ orders'[i].paymentStatus = orders[i].paymentStatus
                      \/ /\ RequestOf(h).op = "uploadPaymentProof"
                         /\ RequestOf(h).id = i
                         /\ orders[i].userId = RequestOf(h).token
                         /\ orders'[i].paymentStatus = "pending"]_vars

\* the customer's upload read their order approved, was answered 200 and has
\* left it pending, next to an order of the admin
C11_Witness ==
    /\ req.op = "uploadPaymentProof"
    /\ req.token = "u1"
    /\ res.status = 200
    /\ At("h1", "answered")
    /\ Val(inflight["h1"]).req = req
    /\ Val(Val(inflight["h1"]).read).paymentStatus = "approved"
    /\ orders[req.id].userId = "u1"
    /\ orders[req.id].paymentStatus = "pending"
    /\ \E i \in 1..Len(orders) : orders[i].userId = "a1"

\* C12: a step after which an order's paymentStatus is approved or rejected,
\* and was not so before (or the order is new), is the write of an admin's
\* payment-status update naming that order and that status.
C12_OnlyAdminApprovesOrRejects ==
    [][\A i \in 1..Len(orders') :
          (/\ orders'[i].paymentStatus \in {"approved", "rejected"}
           /\ (i > Len(orders) \/ orders[i].paymentStatus # orders'[i].paymentStatus))
             => \E h \in Writer :
                   /\ RequestOf(h).op = "updatePaymentStatus"
                   /\ Admin(RequestOf(h))
                   /\ RequestOf(h).id = i
                   /\ RequestOf(h).status = Some(orders'[i].paymentStatus)]_vars

\* the admin rejected the payment of the customer's order
C12_Witness ==
    /\ req.op = "updatePaymentStatus"
    /\ req.token = "a1"
    /\ res.status = 200
    /\ Stored(req.id) /\ orders[req.id].userId = "u1"
    /\ orders[req.id].paymentStatus = "rejected"

\* C13: a payment-status or delivery-status update by an admin with a status
\* of the enum, or a payment-proof upload by an authenticated identity, that
\* names an id of no stored order is answered 404 and no write of it reaches
\* the store.
C13_Case(r) ==
    /\ ~Stored(r.id)
    /\ \/ r.op = "uploadPaymentProof" /\ Authenticated(r)
       \/ r.op = "updatePaymentStatus" /\ Admin(r) /\ ValidPaymentStatus(r.status)
       \/ r.op = "updateDeliveryStatus" /\ Admin(r) /\ ValidDeliveryStatus(r.status)

C13_UnknownOrderIs404 ==
    [][/\ C13_Case(req') => res'.status = 404
       /\ \A h \in Writer : ~C13_Case(RequestOf(h))]_vars

\* C14: every stored order has its paymentStatus in {pending, approved,
\* rejected} and its deliveryStatus in {pending, processing, shipped,
\* delivered, cancelled}; a delivery-status update by an admin whose status
\* is absent or outside the enum is answered 400 and no write of it reaches
\* the store.
StatusesInEnum ==
    \A i \in 1..Len(orders) :
        /\ orders[i].paymentStatus \in {"pending", "approved", "rejected"}
        /\ orders[i].deliveryStatus
              \in {"pending", "processing", "shipped", "delivered", "cancelled"}

C14_Case(r) ==
    /\ r.op = "updateDeliveryStatus"
    /\ Admin(r)
    /\ (~IsSome(r.status) \/ Val(r.status) \notin DeliveryStatuses)

C14_StatusesStayInEnum ==
    /\ []StatusesInEnum
    /\ [][/\ C14_Case(req') => res'.status = 400
          /\ \A h \in Writer : ~C14_Case(RequestOf(h))]_vars

\* the admin sent an unknown delivery status for a stored, shipped order
C14_Witness ==
    /\ req.op = "updateDeliveryStatus"
    /\ req.token = "a1"
    /\ req.status = Some("bogus")
    /\ Stored(req.id) /\ orders[req.id].deliveryStatus = "shipped"
    /\ res.status = 400

\* C15: the totalAmount of every persisted order equals the sum over its
\* line items of quantity times price.
C15_TotalIsSumOfItems ==
    \A i \in 1..Len(orders) : Val(orders[i].totalAmount) = ItemsTotal(orders[i].items)

\* C16: orders are never deleted: an order that has been persisted stays in
\* the store with the same id and the same owner, whatever request is handled.
C16_OrdersNeverDeleted ==
    [][/\ Len(orders') >= Len(orders)
       /\ \A i \in 1..Len(orders) :
             /\ orders'[i]._id = orders[i]._id
             /\ orders'[i].userId = orders[i].userId]_vars

\* the admin has set the payment status of u1's order, which was shipped and
\* has a proof, while a second order is in the store
C16_Witness ==
    /\ req.op = "updatePaymentStatus"
    /\ res.status = 200
    /\ Len(orders) = 2
    /\ Stored(req.id)
    /\ orders[req.id]._id = req.id
    /\ orders[req.id].userId = "u1"
    /\ orders[req.id].deliveryStatus = "shipped"
    /\ IsSome(orders[req.id].paymentProof)

\* C17: a request to any order route that carries no token, a token that
\* does not verify, or a token whose user no longer exists is answered 401
\* with no order in the response in the step it arrives in: no handler runs
\* for it, so no order is read, created or modified and no payment-proof
\* file is stored.
C17_BadTokenIs401 ==
    [][/\ (req'.op # "none" /\ req'.token \in BadTokens)
             => /\ res'.status = 401
                /\ res'.orders = <<>>
                /\ orders' = orders
                /\ stored' = None
       /\ \A h \in Handlers :
             IsSome(inflight'[h]) => Val(inflight'[h]).req.token \notin BadTokens]_vars

\* the token of a deleted user came with a file for a stored order
C17_Witness ==
    /\ req.op = "uploadPaymentProof"
    /\ req.token = "ghost"
    /\ IsSome(req.file)
    /\ Stored(req.id)
    /\ res.status = 401
    /\ stored = None
    /\ ~IsSome(orders[req.id].paymentProof)

\* a listing that was answered 200
Listing(r, a) == r.op \in {"getMyOrders", "getAllOrders"} /\ a.status = 200

\* C18: the write of an admin's payment-status update to s leaves the order
\* with paymentStatus = s, and the update is answered 200 once its write has
\* landed; the paymentStatus of an order changes only by the write of a
\* payment-status update or of a proof upload on that order; and every
\* listing ('my orders' of the owner, 'all orders' of an admin) is answered
\* with the orders as they are stored when Order.find reads them.  Hence
\* the listings read after the update show s until the next update or upload
\* on that order.
ListingShowsStore ==
    /\ \A h \in Lister :
          ListedSet(Val(inflight'[h]).list) = ToList(Val(inflight'[h]).req)
    /\ Listing(req', res')
          => \E h \in Handlers :
                /\ At(h, "listed")
                /\ RequestOf(h) = req'
                /\ inflight'[h] # inflight[h]
                /\ res'.orders = Val(inflight[h]).list

C18_PaymentStatusShownUntilNextChange ==
    [][/\ ListingShowsStore
       /\ (req'.op = "updatePaymentStatus" /\ res'.status = 200) => AnsweredFrom("saved")
       /\ \A h \in Writer :
             RequestOf(h).op = "updatePaymentStatus"
                => orders'[RequestOf(h).id].paymentStatus = Val(RequestOf(h).status)
       /\ \A i \in 1..Len(orders) :
             orders'[i].paymentStatus # orders[i].paymentStatus
                => \E h \in Writer :
                      /\ RequestOf(h).op \in {"updatePaymentStatus", "uploadPaymentProof"}
                      /\ RequestOf(h).id = i]_vars

\* C19: both listings return the orders newest first: of any two listed
\* orders the one created later (the one with the larger id) comes earlier.
C19_ListingNewestFirst ==
    Listing(req, res)
       => \A j, k \in DOMAIN res.orders :
             j < k => res.orders[j]._id > res.orders[k]._id

\* C20: a file stored for a payment-proof request that names a well-formed
\* id is recorded as the paymentProof of the order the request names, the
\* request being answered 200: none is stored for a request answered 404 or
\* 403.
C20_StoredFileIsRecorded ==
    (req.op = "uploadPaymentProof" /\ req.id >= 1 /\ IsSome(stored))
       => /\ res.status = 200
          /\ Stored(req.id)
          /\ orders[req.id].paymentProof = Some(ProofPath(Val(stored)))

\* an image or a PDF of at most 5MB
AcceptableProof(file) == file.ext \in {".png", ".pdf"} /\ file.size <= 5

\* C21: a payment-proof request whose file is not an image or a PDF, or is
\* larger than 5MB, is not answered 200: the file is not recorded as the
\* order's paymentProof.
C21_UnacceptableFileRejected ==
    (/\ req.op = "uploadPaymentProof"
     /\ IsSome(req.file)
     /\ ~AcceptableProof(Val(req.file)))
       => /\ res.status # 200
          /\ Stored(req.id) => orders[req.id].paymentProof # Some(ProofPath(Val(stored)))

\* C22: no step moves the paymentStatus of an order from approved to
\* rejected or from rejected to approved, and no write of an admin's
\* payment-status update moves it from approved or rejected back to pending.
C22_PaymentStateMachine ==
    [][\A i \in 1..Len(orders) :
          /\ ~(orders[i].paymentStatus = "approved" /\ orders'[i].paymentStatus = "rejected")
          /\ ~(orders[i].paymentStatus = "rejected" /\ orders'[i].paymentStatus = "approved")
          /\ (/\ orders[i].paymentStatus \in {"approved", "rejected"}
              /\ \E h \in Writer : Admin(RequestOf(h))
                                     /\ RequestOf(h).op = "updatePaymentStatus")
                => orders'[i].paymentStatus # "pending"]_vars

\* C26: the upload route checks, in this order, that the order exists (404),
\* that the caller owns it (403) and that a file came with the request (400):
\* an unknown id is answered 404 and a non-owner 403 whether or not a file
\* came, the owner without a file 400; no write of any of the three reaches
\* the store.
C26_Case(r) ==
    /\ r.op = "uploadPaymentProof"
    /\ Authenticated(r)
    /\ r.id >= 1
    /\ \/ ~Stored(r.id)
       \/ orders[r.id].userId # r.token
       \/ ~IsSome(r.file)

C26_UploadChecksInOrder ==
    [][/\ (req'.op = "uploadPaymentProof" /\ Authenticated(req') /\ req'.id >= 1)
             => /\ ~Stored(req'.id) => res'.status = 404
                /\ (Stored(req'.id) /\ orders[req'.id].userId # req'.token)
                      => res'.status = 403
                /\ (Stored(req'.id) /\ orders[req'.id].userId = req'.token
                                    /\ ~IsSome(req'.file))
                      => res'.status = 400
       /\ \A h \in Writer : ~C26_Case(RequestOf(h))]_vars

\* the owner of an approved order that has a proof sent no file
C26_Witness ==
    /\ req.op = "uploadPaymentProof"
    /\ ~IsSome(req.file)
    /\ Stored(req.id)
    /\ orders[req.id].userId = req.token
    /\ orders[req.id].paymentStatus = "approved"
    /\ IsSome(orders[req.id].paymentProof)
    /\ res.status = 400

\* new agrees with old on every field outside fields
FrameOf(old, new, fields) == \A f \in DOMAIN old : f \notin fields => new[f] = old[f]

\* C28: an update or an upload is answered 200 once its write has landed,
\* and its write changes no other order and, of the order it names, only its
\* own fields: the payment-status update paymentStatus, the delivery-status
\* update deliveryStatus, the upload paymentProof and paymentStatus (each
\* with updatedAt); items, totalAmount, shippingAddress and the owner stay
\* as they were.
C28_OnlyOwnFieldsChange ==
    [][/\ (/\ req'.op \in {"updatePaymentStatus", "updateDeliveryStatus", "uploadPaymentProof"}
           /\ res'.status = 200)
             => AnsweredFrom("saved")
       /\ \A h \in Writer :
             RequestOf(h).op \in {"updatePaymentStatus", "updateDeliveryStatus",
                                  "uploadPaymentProof"}
                => LET r == RequestOf(h)
                   IN  /\ Len(orders') = Len(orders)
                       /\ Stored(r.id)
                       /\ \A i \in 1..Len(orders) : i # r.id => orders'[i] = orders[i]
                       /\ FrameOf(orders[r.id], orders'[r.id],
                                  CASE r.op = "updatePaymentStatus"
                                          -> {"paymentStatus", "updatedAt"}
                                    [] r.op = "updateDeliveryStatus"
                                          -> {"deliveryStatus", "updatedAt"}
                                    [] r.op = "uploadPaymentProof"
                                          -> {"paymentProof", "paymentStatus", "updatedAt"})]_vars

\* a delivery update went through on an approved order with a proof, next
\* to another order
C28_Witness ==
    /\ req.op = "updateDeliveryStatus"
    /\ res.status = 200
    /\ Len(orders) = 2
    /\ orders[req.id].deliveryStatus = "shipped"
    /\ orders[req.id].paymentStatus = "approved"
    /\ IsSome(orders[req.id].paymentProof)

\* the stages of a delivery, in their order
Stage(status) ==
    CASE status = "pending" -> 0
      [] status = "processing" -> 1
      [] status = "shipped" -> 2
      [] status = "delivered" -> 3
      [] status = "cancelled" -> 4

\* C23: the deliveryStatus of an order never moves to an earlier stage of
\* pending, processing, shipped, delivered, and no step changes it once it
\* is delivered or cancelled, also when the admin page acts on a listing
\* that another admin's request has made stale.
C23_DeliveryOnlyForward ==
    [][\A i \in 1..Len(orders) :
          /\ orders[i].deliveryStatus \in {"delivered", "cancelled"}
                => orders'[i].deliveryStatus = orders[i].deliveryStatus
          /\ Stage(orders'[i].deliveryStatus) >= Stage(orders[i].deliveryStatus)]_vars

\* C24: for every order the admin page lists in a delivery state that is not
\* terminal (pending, processing, shipped), the actions menu holds an item
\* that sets deliveryStatus to cancelled.
C24_MenuAffordsCancel ==
    \A k \in DOMAIN adminPage.orders :
        adminPage.orders[k].deliveryStatus \in {"pending", "processing", "shipped"}
           => \E item \in MenuItems(adminPage.orders[k]) : item.delivery = Some("cancelled")

\* the status field a status update writes
StatusField(op) == IF op = "updatePaymentStatus" THEN "paymentStatus" ELSE "deliveryStatus"

\* invocation h has answered 200 to an update of the status field of op, and
\* its response is on its way
Updated(h, op) ==
    /\ At(h, "answered")
    /\ Val(inflight[h]).req.op = op
    /\ Val(inflight[h]).res.status = 200

\* C25: when two admin requests update the same status field of the same
\* order at the same time, the save of each writes the status it asked for
\* (it leaves the field alone when it asked for the status it had read) and
\* is answered 200, and once both have answered the field holds the status
\* one of the two asked for.
C25_LastWriteWins ==
    /\ [](\A op \in {"updatePaymentStatus", "updateDeliveryStatus"} :
             (/\ Updated("h1", op) /\ Updated("h2", op)
              /\ Val(inflight["h1"]).req.id = Val(inflight["h2"]).req.id)
                => orders[Val(inflight["h1"]).req.id][StatusField(op)]
                      \in {Val(Val(inflight["h1"]).req.status),
                           Val(Val(inflight["h2"]).req.status)})
    /\ [][\A h \in Handlers :
             /\ (h \in Writer /\ RequestOf(h).op \in {"updatePaymentStatus",
                                                        "updateDeliveryStatus"})
                   => orders'[RequestOf(h).id][StatusField(RequestOf(h).op)]
                         = IF Val(RequestOf(h).status)
                                 # Val(Val(inflight[h]).read)[StatusField(RequestOf(h).op)]
                           THEN Val(RequestOf(h).status)
                           ELSE orders[RequestOf(h).id][StatusField(RequestOf(h).op)]
             /\ (/\ At(h, "saved")
                 /\ RequestOf(h).op \in {"updatePaymentStatus", "updateDeliveryStatus"}
                 /\ inflight'[h] # inflight[h])
                   => /\ IsSome(inflight'[h])
                      /\ Val(inflight'[h]).pc = "answered"
                      /\ Val(inflight'[h]).res.status = 200]_vars

\* both invocations read the order while its payment was pending; one has
\* approved it, the other rejected it, and both have answered 200
C25_Witness ==
    /\ Updated("h1", "updatePaymentStatus")
    /\ Updated("h2", "updatePaymentStatus")
    /\ Val(inflight["h1"]).req.status = Some("approved")
    /\ Val(inflight["h2"]).req.status = Some("rejected")
    /\ Val(Val(inflight["h1"]).read).paymentStatus = "pending"
    /\ Val(Val(inflight["h2"]).read).paymentStatus = "pending"
    /\ orders[1].paymentStatus = "approved"

\* C29: when the save of an approving request leaves the order approved, the
\* order's paymentProof is the one the approving request read: no proof
\* uploaded after that read is on an approved order.
C29_ApprovedProofWasRead ==
    [][\A h \in Writer :
          (/\ RequestOf(h).op = "updatePaymentStatus"
           /\ RequestOf(h).status = Some("approved")
           /\ orders'[RequestOf(h).id].paymentStatus = "approved")
             => orders'[RequestOf(h).id].paymentProof
                   = Val(Val(inflight[h]).read).paymentProof]_vars

\* the response the checkout page hears in this step, if it hears one
HeardNow(h, op) == Heard(h, "checkout", op) /\ inflight'[h] = None

\* C27: the checkout page is on step 2 only with the id of a stored order of
\* its user in currentOrderId, and it gets there only on the 201 of a POST
\* /api/orders, whose order id it keeps; it clears the cart and reaches step
\* 3 only on the 200 of a proof upload for that order; a create or an upload
\* that failed leaves the step and the cart as they were; and loading is
\* false once the response is handled.
C27_StepsAdvanceOnSuccess ==
    /\ [](checkout.step = 2
             => /\ IsSome(checkout.currentOrderId)
                /\ Stored(Val(checkout.currentOrderId))
                /\ Some(orders[Val(checkout.currentOrderId)].userId) = checkout.user)
    /\ [][/\ (checkout'.step = 2 /\ checkout.step # 2)
                => \E h \in Handlers :
                      /\ HeardNow(h, "createOrder")
                      /\ Val(inflight[h]).res.status = 201
                      /\ checkout'.currentOrderId = Some(Val(inflight[h]).res.orders[1]._id)
                      /\ Val(inflight[h]).res.orders[1].userId = Val(inflight[h]).req.token
          /\ ((checkout'.step = 3 /\ checkout.step # 3) \/ checkout'.items # checkout.items)
                => \E h \in Handlers :
                      /\ HeardNow(h, "uploadPaymentProof")
                      /\ Val(inflight[h]).res.status = 200
                      /\ Some(Val(inflight[h]).req.id) = checkout.currentOrderId
                      /\ IsSome(orders[Val(inflight[h]).req.id].paymentProof)
                      /\ checkout'.step = 3 /\ checkout'.items = <<>>
          /\ \A h \in Handlers, op \in {"createOrder", "uploadPaymentProof"} :
                HeardNow(h, op)
                   => /\ ~checkout'.loading
                      /\ Val(inflight[h]).res.status \notin {200, 201}
                            => /\ checkout'.step = checkout.step
                               /\ checkout'.items = checkout.items]_vars

\* the page has reached step 3 with the cart cleared: the upload for its
\* order was answered 200 and the order holds the proof
C27_Witness ==
    /\ checkout.step = 3
    /\ checkout.items = <<>>
    /\ ~checkout.loading
    /\ IsSome(checkout.currentOrderId)
    /\ IsSome(orders[Val(checkout.currentOrderId)].paymentProof)
    /\ inflight = [h \in Handlers |-> None]

\* C30: one pass through the checkout page creates at most one order: every
\* order of the store comes from the page, so while the cart has not been
\* cleared the store holds at most one.
C30_AtMostOneOrderPerCart ==
    checkout.items # <<>> => Len(orders) <= 1

====
